---------------------------- MODULE Spec2Model ----------------------------
(***************************************************************************)
(* A model of stella's ConvNN (src/stella/neural_network.py):              *)
(*   - predict: fill_in_sample (gap filling) and the window loop,          *)
(*   - train_models / create_model: the per-seed training loop,            *)
(*   - create_df / ensemble_metrics: the ensemble table and its metrics.   *)
(*                                                                         *)
(* Numbers.  Times are integers counted in half cadences, so that the      *)
(* median of the time differences of an input on the cadence grid is an    *)
(* integer.  Fluxes are exact rationals <<n, d>> with d > 0 in lowest      *)
(* terms.  The comparison against median + sigma*std is done exactly, by   *)
(* squaring.  Predictions are integers counted in units of 0.0001.         *)
(***************************************************************************)
EXTENDS Integers, Sequences, FiniteSets, TLC

VARIABLES
    \* ---- predict ----
    ppc,        \* position in predict: "idle", "fill", "filled", "windows", or the error raised
    inT,        \* the times handed to predict (one light curve)
    inF,        \* the fluxes handed to predict
    cadences,   \* self.cadences
    time,       \* t of fill_in_sample / time of predict
    flux,       \* f of fill_in_sample / lc of predict
    err,        \* e of fill_in_sample
    gaps,       \* the part of diff_ind the for loop has still to visit
    built,      \* the windows f the window loop has built, in order
    reshaped,   \* the rows of reshaped_data that were stored
    \* ---- train_models ----
    tpc,        \* position in train_models
    seeds,      \* the seeds argument
    pred_test,  \* the pred_test argument
    save,       \* the save argument
    userLayers, \* self.layers: whether given, and the weights of the layer objects
    todo,       \* the seeds the for loop has still to visit
    rng,        \* the process-wide random state: the seed it was last seeded with, or -1
    model,      \* self.model
    fits,       \* one record per call of model.fit
    table,      \* column names of the history table
    val_table,  \* column names of the validation table
    test_table, \* column names of the test table
    \* ---- create_df / ensemble_metrics ----
    epc,        \* position in create_df / ensemble_metrics
    dir,        \* the prediction files of output_dir
    call,       \* the arguments of the create_df call
    df,         \* the table create_df returns
    metrics     \* the attributes ensemble_metrics sets

predVars  == <<ppc, inT, inF, cadences, time, flux, err, gaps, built, reshaped>>
trainVars == <<tpc, seeds, pred_test, save, userLayers, todo, rng, model, fits,
               table, val_table, test_table>>
evalVars  == <<epc, dir, call, df, metrics>>
vars      == <<predVars, trainVars, evalVars>>

-----------------------------------------------------------------------------
(* Bounds of the model *)

MaxLen == 10         \* longest input light curve
MaxIrregular == 2    \* most time steps of an input that differ from the cadence
MaxSeeds == 3        \* longest seeds list
MaxSeed == 2         \* largest seed
MaxFiles == 3        \* most per-seed prediction files in output_dir

\* The time steps of an input, in half cadences: one cadence, or one of the
\* irregular steps (a step back, a repeated stamp, a gap of three cadences).
IrregularSteps == {-2, 0, 6}

\* The window widths: an odd one, and the even one of the documented example.
CadenceVals == {3, 4}

-----------------------------------------------------------------------------
(* Integers and sequences *)

Abs(x) == IF x < 0 THEN -x ELSE x

Min(a, b) == IF a < b THEN a ELSE b

Max(a, b) == IF a < b THEN b ELSE a

RECURSIVE GCD(_, _)
GCD(a, b) == IF b = 0 THEN Abs(a) ELSE GCD(Abs(b), Abs(a) % Abs(b))

\* ceil(a / b) for b > 0
CeilDiv(a, b) == -((-a) \div b)

RECURSIVE SeqSum(_)
SeqSum(s) == IF s = <<>> THEN 0 ELSE Head(s) + SeqSum(Tail(s))

RECURSIVE SeqSumSq(_)
SeqSumSq(s) == IF s = <<>> THEN 0 ELSE Head(s) * Head(s) + SeqSumSq(Tail(s))

\* python's s[a:b] for 0 <= a, 0 <= b (0-based, b excluded, clipped to the length)
Slice(s, a, b) == SubSeq(s, a + 1, Min(b, Len(s)))

Zeros(n) == [k \in 1..n |-> <<0, 1>>]

\* a sorted copy of a sequence of integers
RECURSIVE InsertSorted(_, _)
InsertSorted(s, x) ==
    IF s = <<>> THEN <<x>>
    ELSE IF x <= Head(s) THEN <<x>> \o s
    ELSE <<Head(s)>> \o InsertSorted(Tail(s), x)

RECURSIVE SortInts(_)
SortInts(s) == IF s = <<>> THEN <<>> ELSE InsertSorted(SortInts(Tail(s)), Head(s))

-----------------------------------------------------------------------------
(* Rationals <<n, d>>, d > 0, in lowest terms *)

Rat(n, d) ==
    LET g == GCD(n, d)
        s == IF d < 0 THEN -1 ELSE 1
    IN  <<(s * n) \div g, (s * d) \div g>>

RInt(n) == <<n, 1>>

RAdd(a, b) == Rat(a[1] * b[2] + b[1] * a[2], a[2] * b[2])

RMul(a, b) == Rat(a[1] * b[1], a[2] * b[2])

RDiv(a, b) == Rat(a[1] * b[2], a[2] * b[1])

RLess(a, b) == a[1] * b[2] < b[1] * a[2]

-----------------------------------------------------------------------------
(* predict: fill_in_sample *)

\* sigma = 2.5 of fill_in_sample, as SigmaNum / SigmaDen
SigmaNum == 5
SigmaDen == 2

\* np.diff
Diff(t) == [k \in 1..(Len(t) - 1) |-> t[k + 1] - t[k]]

\* np.nanmedian of a non-empty sequence of integers whose two middle values
\* have an even sum (times are counted in half cadences for that)
NanMedian(d) ==
    LET s == SortInts(d)
        n == Len(s)
    IN  IF n % 2 = 1 THEN s[(n + 1) \div 2]
        ELSE (s[n \div 2] + s[n \div 2 + 1]) \div 2

\* n^2 * variance of d (np.nanstd is the population standard deviation)
ScaledVar(d) == Len(d) * SeqSumSq(d) - SeqSum(d) * SeqSum(d)

\* x >= med + sigma*std, decided exactly, for a sequence of n values with the
\* median med and the standard deviation sqrt(svar)/n
AtLeastThreshold(x, med, svar, n) ==
    LET y == (x - med) * SigmaDen * n
    IN  /\ y >= 0
        /\ y * y >= SigmaNum * SigmaNum * svar

\* x > med + sigma*std, decided exactly
AboveThreshold(x, med, svar, n) ==
    LET y == (x - med) * SigmaDen * n
    IN  /\ y > 0
        /\ y * y > SigmaNum * SigmaNum * svar

\* the ascending sequence of the members of a set of integers
RECURSIVE AscendingSeq(_)
AscendingSeq(S) ==
    IF S = {} THEN <<>>
    ELSE LET m == CHOOSE x \in S : \A y \in S : x <= y
         IN  <<m>> \o AscendingSeq(S \ {m})

\* diff_ind: np.where(diff >= median + sigma*std)[0], 0-based and ascending
DiffInd(t) ==
    LET Flagged(diff, med, svar) ==
            {j \in 1..Len(diff) : AtLeastThreshold(diff[j], med, svar, Len(diff))}
    IN  AscendingSeq(UNION { { k - 1 : k \in Flagged(diff, med, svar) } :
            diff \in {Diff(t)}, med \in {NanMedian(Diff(t))}, svar \in {ScaledVar(Diff(t))} })

\* len(np.arange(start, stop, step)) for step # 0
ArangeLen(start, stop, step) ==
    IF step > 0 THEN Max(0, CeilDiv(stop - start, step))
    ELSE Max(0, CeilDiv(start - stop, -step))

\* (a mutant of Arange: only the start of the range)
ArangeStartOnly(start, stop, step) == <<start>>

\* np.arange(start, stop, step) for step # 0
Arange(start, stop, step) ==
    [k \in 1..ArangeLen(start, stop, step) |-> start + (k - 1) * step]

\* interp1d(x, y)(p) for two points x, y (linear; scipy orders the two points)
Interp(x, y, p) == RAdd(y[1], RMul(Rat(p - x[1], x[2] - x[1]), RAdd(y[2], RMul(RInt(-1), y[1]))))

\* (a mutant of InRange: the lower end of the range excluded)
InRangeOpen(x, p) == Min(x[1], x[2]) < p /\ p <= Max(x[1], x[2])

\* interp1d raises ValueError for a point outside the range of x
InRange(x, p) == Min(x[1], x[2]) <= p /\ p <= Max(x[1], x[2])

\* np.insert(s, i, new): new goes before the 0-based index i
InsertAt(s, i, new) == SubSeq(s, 1, i) \o new \o SubSeq(s, i + 1, Len(s))

\* The draws of np.random.normal(0, avg_noise, n): avg_noise = nanstd(f)/2 is
\* zero exactly when all fluxes are equal, and then every draw is 0.
NoiseVals(f) == IF \A k \in 1..Len(f) : f[k] = f[1] THEN {0} ELSE {-1, 1}

\* the error value of a sample: an input's own value, or avg_noise
OrigErr(k) == [kind |-> "orig", idx |-> k]
AvgNoise == [kind |-> "avg_noise", idx |-> 0]

\* (a mutant of PairLeq: the pairs zipped as (f, t), compared by flux first)
PairLeqFluxFirst(a, b) == RLess(a[2], b[2]) \/ (a[2] = b[2] /\ a[1] <= b[1])

\* sorted(zip(t, f)): tuples compare by time, then by flux
PairLeq(a, b) == a[1] < b[1] \/ (a[1] = b[1] /\ ~RLess(b[2], a[2]))

RECURSIVE InsertPair(_, _)
InsertPair(s, x) ==
    IF s = <<>> THEN <<x>>
    ELSE IF PairLeq(x, Head(s)) THEN <<x>> \o s
    ELSE <<Head(s)>> \o InsertPair(Tail(s), x)

RECURSIVE SortPairs(_)
SortPairs(s) == IF s = <<>> THEN <<>> ELSE InsertPair(SortPairs(Tail(s)), Head(s))

Zip(t, f) == [k \in 1..Len(t) |-> <<t[k], f[k]>>]

\* one pass of "for i in diff_ind" (lines 552-564)
FillGap ==
    /\ ppc = "fill"
    /\ gaps # <<>>
    /\ \E step \in {NanMedian(Diff(inT))} :
       LET i == Head(gaps)
           x == <<time[i + 1], time[i + 2]>>
           y == <<flux[i + 1], flux[i + 2]>>
       IN  IF step = 0
           THEN /\ ppc' = "ArangeError"
                /\ UNCHANGED <<time, flux, err, gaps>>
           ELSE \E new_time \in {Arange(x[1], x[2], step)} :
                  IF \E k \in 1..Len(new_time) : ~InRange(x, new_time[k])
                  THEN /\ ppc' = "InterpError"
                       /\ UNCHANGED <<time, flux, err, gaps>>
                  ELSE \E noise \in [1..Len(new_time) -> NoiseVals(inF)] :
                         LET new_flux == [k \in 1..Len(new_time) |->
                                 RAdd(Interp(x, y, new_time[k]), RInt(noise[k]))]
                         IN  /\ time' = InsertAt(time, i, new_time)
                             /\ flux' = InsertAt(flux, i, new_flux)
                             /\ err' = InsertAt(err, i, [k \in 1..Len(new_time) |-> AvgNoise])
                             /\ gaps' = Tail(gaps)
                             /\ ppc' = "fill"
    /\ UNCHANGED <<inT, inF, cadences, built, reshaped, trainVars, evalVars>>

\* line 565-566: sort time and flux together, return
FillReturn ==
    /\ ppc = "fill"
    /\ gaps = <<>>
    /\ LET s == SortPairs(Zip(time, flux))
       IN  /\ time' = [k \in 1..Len(s) |-> s[k][1]]
           /\ flux' = [k \in 1..Len(s) |-> s[k][2]]
    /\ ppc' = "filled"
    /\ UNCHANGED <<inT, inF, cadences, err, gaps, built, reshaped, trainVars, evalVars>>

-----------------------------------------------------------------------------
(* predict: the window loop *)

\* np.nanmedian of a non-empty sequence of rationals
RECURSIVE InsertRat(_, _)
InsertRat(s, x) ==
    IF s = <<>> THEN <<x>>
    ELSE IF ~RLess(Head(s), x) THEN <<x>> \o s
    ELSE <<Head(s)>> \o InsertRat(Tail(s), x)

RECURSIVE SortRats(_)
SortRats(s) == IF s = <<>> THEN <<>> ELSE InsertRat(SortRats(Tail(s)), Head(s))

RatMedian(f) ==
    LET s == SortRats(f)
        n == Len(s)
    IN  IF n % 2 = 1 THEN s[(n + 1) \div 2]
        ELSE RDiv(RAdd(s[n \div 2], s[n \div 2 + 1]), RInt(2))

\* lc = lc / np.nanmedian(lc)
DivideBy(f, m) == [k \in 1..Len(f) |-> RDiv(f[k], m)]

Normalize(f) == CHOOSE lc \in {DivideBy(f, m) : m \in {RatMedian(f)}} : TRUE

\* cadence_pad = int(cadences/2)
CadencePad(c) == c \div 2

\* f of line 600, 610 or 618 for the 0-based index i
Window(lc, c, i) ==
    LET pad == CadencePad(c)
    IN  IF 2 * i <= c
        THEN Zeros(pad - i) \o Slice(lc, 0, i + pad)
        ELSE IF i >= Len(lc) - pad
        THEN LET part == Slice(lc, i - pad, Len(lc))
             IN  part \o Zeros(Abs(c - Len(part)))
        ELSE Slice(lc, i - pad, i + pad)

\* reshaped_data[i] = f stores f when it has the row's length, or one value
\* (which numpy broadcasts over the row); otherwise it raises ValueError
Storable(f, c) == Len(f) = c \/ Len(f) = 1

StoredRow(f, c) == IF Len(f) = c THEN f ELSE [k \in 1..c |-> f[1]]

\* lines 585-621: normalise, then build and store one window per sample; the
\* loop ends at the first window that cannot be stored
BuildWindows ==
    /\ ppc = "filled"
    /\ flux' = Normalize(flux)
    /\ \E all \in {[k \in 1..Len(flux) |-> Window(flux', cadences, k - 1)]} :
       LET bad == {k \in 1..Len(all) : ~Storable(all[k], cadences)}
           n   == IF bad = {} THEN Len(all) ELSE CHOOSE k \in bad : \A j \in bad : k <= j
       IN  /\ built' = SubSeq(all, 1, n)
           /\ reshaped' = [k \in 1..(IF bad = {} THEN n ELSE n - 1) |->
                               StoredRow(all[k], cadences)]
           /\ ppc' = IF bad = {} THEN "windows" ELSE "ValueError"
    /\ UNCHANGED <<inT, inF, cadences, time, err, gaps, trainVars, evalVars>>

-----------------------------------------------------------------------------
(* predict: its inputs *)

\* the time stamps that start at 0 and advance by the given steps
RECURSIVE TimesFrom(_, _)
TimesFrom(t0, steps) ==
    IF steps = <<>> THEN <<t0>>
    ELSE <<t0>> \o TimesFrom(t0 + Head(steps), Tail(steps))

\* at most MaxIrregular of the steps are irregular, the others are one cadence
StepSeqs(n) ==
    { [k \in 1..n |-> IF k \in DOMAIN v THEN v[k] ELSE 2] :
        v \in UNION { [P -> IrregularSteps] :
                        P \in {Q \in SUBSET (1..n) : Cardinality(Q) <= MaxIrregular} } }

TimeInputs == UNION { { TimesFrom(0, st) : st \in StepSeqs(n) } : n \in 1..(MaxLen - 1) }

\* fluxes that rise or fall along the series, all distinct and positive, and
\* further apart than the noise is large
FluxInputs(n) == { [k \in 1..n |-> RInt(10 * (k + 2))], [k \in 1..n |-> RInt(10 * (n + 3 - k))] }

PredIdle ==
    /\ ppc = "idle"
    /\ inT = <<>> /\ inF = <<>> /\ cadences = 0
    /\ time = <<>> /\ flux = <<>> /\ err = <<>> /\ gaps = <<>>
    /\ built = <<>> /\ reshaped = <<>>

\* predict called with one light curve: fill_in_sample has computed diff_ind
PredInit ==
    /\ inT \in TimeInputs
    /\ inF \in FluxInputs(Len(inT))
    /\ cadences \in CadenceVals
    /\ time = inT
    /\ flux = inF
    /\ err = [k \in 1..Len(inT) |-> OrigErr(k)]
    /\ gaps = DiffInd(inT)
    /\ ppc = "fill"
    /\ built = <<>>
    /\ reshaped = <<>>

PredNext == FillGap \/ FillReturn \/ BuildWindows

-----------------------------------------------------------------------------
(* train_models and create_model *)

\* the decimal digits of n >= 0
RECURSIVE Digits(_)
Digits(n) == IF n < 10 THEN <<n>> ELSE Digits(n \div 10) \o <<n % 10>>

\* '{0:04d}'.format(n) for n >= 0: the digits, zero-padded to 4 places
Fmt04d(n) == LET d == Digits(n) IN [k \in 1..(4 - Len(d)) |-> 0] \o d

\* a column name: a base, and the digits that follow '_s' (none: no suffix)
ColName(base, suffix) == <<base, suffix>>

\* names=['tic', 'gt', 'tpeak'] of val_table and test_table
IdentityCols == <<ColName("tic", <<>>), ColName("gt", <<>>), ColName("tpeak", <<>>)>>

\* history.history.keys() for the default metrics, with validation data
HistoryKeys == <<"loss", "accuracy", "precision", "recall",
                 "val_loss", "val_accuracy", "val_precision", "val_recall">>

\* Table.add_column refuses a name the table already has (ValueError)
CanAdd(t, names) ==
    /\ \A k \in 1..Len(names) : \A j \in 1..Len(t) : t[j] # names[k]
    /\ \A k, j \in 1..Len(names) : names[k] = names[j] => k = j

\* weights of layers: not built yet, or initialised from the random state r
\* and then trained by the fits of the listed seeds
Unbuilt == [built |-> FALSE, init |-> -1, trained |-> <<>>]

FreshWeights(r) == [built |-> TRUE, init |-> r, trained |-> <<>>]

\* lines 99-100: np.random.seed(seed); tf.random.set_seed(seed)
Reseed ==
    /\ tpc = "loop"
    /\ todo # <<>>
    /\ rng' = Head(todo)
    /\ tpc' = "seeded"
    /\ UNCHANGED <<seeds, pred_test, save, userLayers, todo, model, fits,
                   table, val_table, test_table, predVars, evalVars>>

\* The layers of the model create_model assembles: new layer objects when
\* self.layers is None, else the user's layer objects themselves, which keep
\* the weights they have once they are built.
ModelWeights(layers, r) ==
    IF layers.given /\ layers.w.built THEN layers.w ELSE FreshWeights(r)

\* lines 103-146: clear_session, Sequential(), add the layers, compile
Construct ==
    /\ tpc = "seeded"
    /\ model' = [seed |-> Head(todo), rng |-> rng,
                 layers |-> IF userLayers.given THEN "user" ELSE "default",
                 weights |-> ModelWeights(userLayers, rng)]
    /\ userLayers' = IF userLayers.given
                     THEN [userLayers EXCEPT !.w = ModelWeights(userLayers, rng)]
                     ELSE userLayers
    /\ tpc' = "constructed"
    /\ UNCHANGED <<seeds, pred_test, save, todo, rng, fits,
                   table, val_table, test_table, predVars, evalVars>>

\* lines 236-239: self.model.fit trains the weights of the model's layers
Fit ==
    /\ tpc = "constructed"
    /\ LET w == [model.weights EXCEPT !.trained = Append(@, model.seed)]
       IN  /\ fits' = Append(fits, [seed |-> model.seed, rng |-> model.rng,
                                    start |-> model.weights])
           /\ model' = [model EXCEPT !.weights = w]
           /\ userLayers' = IF model.layers = "user"
                            THEN [userLayers EXCEPT !.w = w] ELSE userLayers
    /\ tpc' = "fitted"
    /\ UNCHANGED <<seeds, pred_test, save, todo, rng,
                   table, val_table, test_table, predVars, evalVars>>

\* the file model.save writes, and the files the tables are written to
ModelFile(seed) == [kind |-> "model", seed |-> Fmt04d(seed), kfold |-> FALSE,
                    format |-> "h5", cols |-> <<>>,
                    pred |-> <<>>, gt |-> <<>>, tic |-> <<>>, tpeak |-> <<>>]

TableFile(kind, cols) == [kind |-> kind, seed |-> <<>>, kfold |-> FALSE,
                          format |-> "ascii", cols |-> cols,
                          pred |-> <<>>, gt |-> <<>>, tic |-> <<>>, tpeak |-> <<>>]

\* (a mutant of TestCols: test predictions whatever pred_test is)
TestColsAlways(p, seed) == <<ColName("test", Fmt04d(seed))>>

\* test predictions are added only if pred_test is True (line 255)
TestCols(p, seed) == IF p THEN <<ColName("test", Fmt04d(seed))>> ELSE <<>>

\* lines 241-257: the history columns, model.save, the prediction columns
Record ==
    /\ tpc = "fitted"
    /\ LET seed == Head(todo)
           hist == [k \in 1..Len(HistoryKeys) |-> ColName(HistoryKeys[k], Fmt04d(seed))]
           val  == <<ColName("pred", Fmt04d(seed))>>
           test == TestCols(pred_test, seed)
       IN  IF ~CanAdd(table, hist)
           THEN /\ tpc' = "ValueError"
                /\ UNCHANGED <<table, val_table, test_table, todo, dir>>
           ELSE /\ table' = table \o hist
                /\ dir' = dir \cup {ModelFile(seed)}
                /\ IF ~CanAdd(val_table, val)
                   THEN /\ tpc' = "ValueError"
                        /\ UNCHANGED <<val_table, test_table, todo>>
                   ELSE /\ val_table' = val_table \o val
                        /\ IF ~CanAdd(test_table, test)
                           THEN /\ tpc' = "ValueError"
                                /\ UNCHANGED <<test_table, todo>>
                           ELSE /\ test_table' = test_table \o test
                                /\ todo' = Tail(todo)
                                /\ tpc' = "loop"
    /\ UNCHANGED <<seeds, pred_test, save, userLayers, rng, model, fits,
                   predVars, epc, call, df, metrics>>

\* lines 260-277: set the attributes; write the tables if save is True
Finish ==
    /\ tpc = "loop"
    /\ todo = <<>>
    /\ dir' = IF save
              THEN dir \cup {TableFile("histories", table), TableFile("predval", val_table)}
                       \cup (IF Len(test_table) > 3
                             THEN {TableFile("predtest", test_table)} ELSE {})
              ELSE dir
    /\ tpc' = "done"
    /\ UNCHANGED <<seeds, pred_test, save, userLayers, todo, rng, model, fits,
                   table, val_table, test_table, predVars, epc, call, df, metrics>>

\* self.model before any model is made
NoModel == [seed |-> -1, rng |-> -1, layers |-> "none", weights |-> Unbuilt]

SeedLists == UNION { [1..n -> 0..MaxSeed] : n \in 0..MaxSeeds }

TrainIdle ==
    /\ tpc = "idle"
    /\ seeds = <<>> /\ pred_test = FALSE /\ save = FALSE
    /\ userLayers = [given |-> FALSE, w |-> Unbuilt] /\ todo = <<>> /\ rng = -1
    /\ model = NoModel /\ fits = <<>>
    /\ table = <<>> /\ val_table = <<>> /\ test_table = <<>>

\* train_models called: lines 214-224 have made the three tables
TrainInit ==
    /\ seeds \in SeedLists
    /\ pred_test \in BOOLEAN
    /\ save \in BOOLEAN
    /\ userLayers \in {[given |-> g, w |-> Unbuilt] : g \in BOOLEAN}
    /\ todo = seeds
    /\ rng = -1
    /\ model = NoModel
    /\ fits = <<>>
    /\ table = <<>>
    /\ val_table = IdentityCols
    /\ test_table = IdentityCols
    /\ tpc = "loop"

TrainNext == Reseed \/ Construct \/ Fit \/ Record \/ Finish

-----------------------------------------------------------------------------
(* create_df *)

\* A table value: a number n/d (predictions count in units of 0.0001), or NaN
Num(n, d) == <<"num", n, d>>
NaN == <<"nan", 0, 1>>
IsNaN(v) == v[1] = "nan"
RatOf(v) == <<v[2], v[3]>>

\* rint(n / q) for q > 0: to the nearest integer, halves to the even one
RoundHalfEven(n, q) ==
    LET f == n \div q
        r == n % q
    IN  IF 2 * r < q THEN f
        ELSE IF 2 * r > q THEN f + 1
        ELSE IF f % 2 = 0 THEN f ELSE f + 1

\* (a mutant of Round3: no rounding)
Round3None(v) == v

\* np.round(x, 3) of a prediction in units of 0.0001; NaN stays NaN
Round3(v) == IF IsNaN(v) THEN NaN ELSE Num(10 * RoundHalfEven(v[2], 10), 1)

RECURSIVE RatSum(_)
RatSum(s) == IF s = <<>> THEN RInt(0) ELSE RAdd(Head(s), RatSum(Tail(s)))

\* np.nanmean of the values of one row across the seed columns
NanMean(vals) ==
    LET nums == SelectSeq(vals, LAMBDA v : ~IsNaN(v))
    IN  IF nums = <<>> THEN NaN
        ELSE LET m == RDiv(RatSum([k \in 1..Len(nums) |-> RatOf(nums[k])]), RInt(Len(nums)))
             IN  Num(m[1], m[2])

\* pred_round: 1 where pred >= threshold, 0 where pred < threshold, and the
\* 0 of np.zeros where pred is NaN (neither comparison holds)
PredRound(v, threshold) ==
    IF ~IsNaN(v) /\ ~RLess(RatOf(v), RInt(threshold)) THEN 1 ELSE 0

\* str.lower on the data_set values of the model
Lower(str) ==
    IF str = "Validation" THEN "validation"
    ELSE IF str = "TEST" THEN "test"
    ELSE str

\* (a mutant of IsMetrics: the literal misspelt)
IsMetricsTypo(mode) == mode.value = "Metrics" /\ ~mode.copy

\* "mode is 'metrics'" compares identities: it holds for the 'metrics' literal
\* (the default), not for an equal string that is another object (a copy)
IsMetrics(mode) == mode.value = "metrics" /\ ~mode.copy

\* lexicographic order of digit sequences: the order of the file names
RECURSIVE SeqLess(_, _)
SeqLess(a, b) ==
    IF b = <<>> THEN FALSE
    ELSE IF a = <<>> THEN TRUE
    ELSE IF Head(a) # Head(b) THEN Head(a) < Head(b)
    ELSE SeqLess(Tail(a), Tail(b))

RECURSIVE SortedFiles(_)
SortedFiles(F) ==
    IF F = {} THEN <<>>
    ELSE LET m == CHOOSE x \in F : \A y \in F : ~SeqLess(y.seed, x.seed)
         IN  <<m>> \o SortedFiles(F \ {m})

\* np.sort(glob.glob("<kind>*i<epochs>*_b<frac_balance>.txt")): the names that
\* start with the kind and end with the balance; a k-fold file does not end so
Glob(d, kind) == SortedFiles({f \in d : f.kind = kind /\ ~f.kfold})

\* the ground truth, the ids and the peak times of the rows of a prediction
\* file: of the two validation examples, or of the one test example
RowGt(kind) == IF kind = "predval" THEN <<1, 0>> ELSE <<1>>
RowTic(kind) == IF kind = "predval" THEN <<101, 102>> ELSE <<201>>
RowPeak(kind) == IF kind = "predval" THEN <<11, 12>> ELSE <<21>>

NoDf == [names |-> <<>>, seedcols |-> <<>>, pred |-> <<>>, pred_round |-> <<>>,
         gt |-> <<>>, tic |-> <<>>, peak |-> <<>>]

\* lines 314-334 for the files read, all of which hold a 'pred' column; gt,
\* tpeak and tic come from r, the table of the last file read
MakeDf(files, threshold) ==
    LET cols == [k \in 1..Len(files) |->
                    [r \in 1..Len(files[k].pred) |-> Round3(files[k].pred[r])]]
        last == files[Len(files)]
        n    == Len(last.gt)
        pred == [r \in 1..n |-> NanMean([k \in 1..Len(cols) |-> cols[k][r]])]
    IN  [names |-> <<ColName("pred_round", <<>>), ColName("tic", <<>>),
                     ColName("peak", <<>>), ColName("gt", <<>>)>>
                   \o [k \in 1..Len(files) |-> ColName("s", files[k].seed)]
                   \o <<ColName("pred", <<>>)>>,
         seedcols |-> cols,
         pred |-> pred,
         pred_round |-> [r \in 1..n |-> PredRound(pred[r], threshold)],
         gt |-> last.gt, tic |-> last.tic, peak |-> last.tpeak]

\* r['pred'] of r = Table.read(val, format="csv"): a comma-separated file has
\* the columns of its header; of a file written with format='ascii' (separated
\* by spaces) the csv reader makes one column named by the whole header line
HasPredColumn(f) ==
    /\ f.format = "csv"
    /\ \E c \in 1..Len(f.cols) : f.cols[c] = "pred"

\* create_df(threshold, mode, data_set), lines 301-336
CreateDf(threshold, mode, data_set) ==
    /\ epc = "idle"
    /\ call' = [threshold |-> threshold, mode |-> mode, data_set |-> data_set]
    /\ IF Lower(data_set) \notin {"validation", "test"}
       THEN \* files is never bound: len(files) or enumerate(files) raises
            /\ epc' = "UnboundLocalError"
            /\ df' = NoDf
       ELSE LET files == Glob(dir, IF Lower(data_set) = "validation"
                                   THEN "predval" ELSE "predtest")
            IN  IF IsMetrics(mode) /\ Len(files) < 2
                THEN /\ epc' = "ValueError"
                     /\ df' = NoDf
                ELSE IF \E k \in 1..Len(files) : ~HasPredColumn(files[k])
                THEN \* r['pred'] of a file without that column
                     /\ epc' = "KeyError"
                     /\ df' = NoDf
                ELSE IF \E k \in 1..Len(files) : Len(files[k].pred) # Len(files[1].pred)
                THEN \* add_column of a column of another length
                     /\ epc' = "ValueError"
                     /\ df' = NoDf
                ELSE IF files = <<>>
                THEN \* r is never bound: r['gt'] raises
                     /\ epc' = "UnboundLocalError"
                     /\ df' = NoDf
                ELSE /\ epc' = "df"
                     /\ df' = MakeDf(files, threshold)
    /\ UNCHANGED <<dir, metrics, predVars, trainVars>>

-----------------------------------------------------------------------------
(* ensemble_metrics *)

\* the names bound where line 371 reads "threshold": the locals of
\* ensemble_metrics and the names the module binds (lines 1-11)
EnsembleLocals == {"self", "df", "precision_recall_curve", "average_precision_score",
                   "precision_score", "recall_score", "ap", "ac", "rs", "ps",
                   "i", "val", "arr"}

ModuleGlobals == {"os", "glob", "np", "tqdm", "tf", "keras", "interp1d",
                  "Table", "Column", "__all__", "ConvNN"}

Bound(name) == name \in EnsembleLocals \cup ModuleGlobals

RECURSIVE SetToSeq(_)
SetToSeq(S) ==
    IF S = {} THEN <<>>
    ELSE LET x == CHOOSE y \in S : TRUE
         IN  <<x>> \o SetToSeq(S \ {x})

\* sklearn's average_precision_score(gt, score) for scores without NaN and at
\* least one positive: the sum over the distinct scores s of
\* (recall(s) - recall(next higher score)) * precision(s)
AveragePrecision(gt, score) ==
    LET rows   == 1..Len(gt)
        S      == SetToSeq({RatOf(score[r]) : r \in rows})
        npos   == Cardinality({r \in rows : gt[r] = 1})
        At(x)  == Cardinality({r \in rows : gt[r] = 1 /\ RatOf(score[r]) = x})
        TP(x)  == Cardinality({r \in rows : gt[r] = 1 /\ ~RLess(RatOf(score[r]), x)})
        PP(x)  == Cardinality({r \in rows : ~RLess(RatOf(score[r]), x)})
        Term(x) == Rat(At(x) * TP(x), npos * PP(x))
    IN  RatSum([k \in 1..Len(S) |-> Term(S[k])])

\* np.round(x, 4) of a rational, in units of 0.0001
Round4(x) == RoundHalfEven(x[1] * 10000, x[2])

\* the data of the k-th column of df.columns[4:]: the seed columns, then pred
ScoreColumn(d, k) == IF k <= Len(d.seedcols) THEN d.seedcols[k] ELSE d.pred

NoMetrics == [ap |-> <<>>, average_precision |-> <<"unset", 0>>]

\* ensemble_metrics(df), lines 361-390.  The first pass of the loop appends
\* the average precision of the first column (sklearn raises ValueError for a
\* score that is NaN) and then reads the name "threshold" at line 371, which
\* nothing binds: NameError.  Lines 372-390 are never reached.
EnsembleMetrics ==
    /\ epc = "df"
    /\ LET col == ScoreColumn(df, 1)
       IN  IF \E r \in 1..Len(col) : IsNaN(col[r])
           THEN /\ epc' = "metrics_ValueError"
                /\ metrics' = metrics
           ELSE /\ ~Bound("threshold")
                /\ epc' = "metrics_NameError"
                /\ metrics' = [metrics EXCEPT !.ap = <<Round4(AveragePrecision(df.gt, col))>>]
    /\ UNCHANGED <<dir, call, df, predVars, trainVars>>

\* the per-seed prediction files of output_dir: the layout of lines 469-472
\* under the names of lines 81-82
PredVals == {NaN, Num(2000, 1), Num(4004, 1)}

PredFiles(seed) ==
    UNION { { [kind |-> k, seed |-> Fmt04d(seed), kfold |-> FALSE, format |-> "csv",
               cols |-> <<"# tic", "pred", "gt", "tpeak">>,
               pred |-> p, gt |-> RowGt(k), tic |-> RowTic(k), tpeak |-> RowPeak(k)] :
                p \in [1..Len(RowGt(k)) -> PredVals] } : k \in {"predval", "predtest"} }

RECURSIVE Dirs(_)
Dirs(n) ==
    IF n = 0 THEN {{}}
    ELSE LET D == Dirs(n - 1)
         IN  D \cup { d \cup {f} : d \in {e \in D : Cardinality(e) = n - 1},
                                    f \in PredFiles(n) }

Modes == {[value |-> "all", copy |-> FALSE],
          [value |-> "metrics", copy |-> FALSE],
          [value |-> "metrics", copy |-> TRUE]}

DataSets == {"Validation", "test", "train"}

Thresholds == {3000}

EvalIdle ==
    /\ epc = "idle"
    /\ dir = {}
    /\ call = [threshold |-> 0, mode |-> [value |-> "metrics", copy |-> FALSE],
               data_set |-> "validation"]
    /\ df = NoDf
    /\ metrics = NoMetrics

EvalInit ==
    /\ dir \in Dirs(MaxFiles)
    /\ epc = "idle"
    /\ call = [threshold |-> 0, mode |-> [value |-> "metrics", copy |-> FALSE],
               data_set |-> "validation"]
    /\ df = NoDf
    /\ metrics = NoMetrics

EvalNext ==
    \/ \E th \in Thresholds, m \in Modes, ds \in DataSets : CreateDf(th, m, ds)
    \/ EnsembleMetrics

-----------------------------------------------------------------------------
(* Specifications *)

\* predict on one light curve
InitPredict == PredInit /\ TrainIdle /\ EvalIdle

SpecPredict == InitPredict /\ [][PredNext]_vars

\* train_models
InitTrain == PredIdle /\ TrainInit /\ EvalIdle

SpecTrain == InitTrain /\ [][TrainNext]_vars

\* create_df, then ensemble_metrics on the table it returns
InitEval == PredIdle /\ TrainIdle /\ EvalInit

SpecEval == InitEval /\ [][EvalNext]_vars

\* train_models, then create_df on the output_dir it has written to
CreateDfAfterTraining ==
    /\ tpc = "done"
    /\ \E th \in Thresholds, m \in Modes, ds \in DataSets : CreateDf(th, m, ds)

PipelineNext == TrainNext \/ CreateDfAfterTraining

SpecPipeline == InitTrain /\ [][PipelineNext]_vars

Init == InitPredict \/ InitTrain \/ InitEval

Next == PredNext \/ TrainNext \/ EvalNext

Spec == Init /\ [][Next]_vars

-----------------------------------------------------------------------------
(* Properties of predict *)

StrictlyIncreasing(t) == \A k \in 1..(Len(t) - 1) : t[k] < t[k + 1]

NonDecreasing(t) == \A k \in 1..(Len(t) - 1) : t[k] <= t[k + 1]

\* the errors handed to predict with the light curve
InputErr == [k \in 1..Len(inT) |-> OrigErr(k)]

\* fill_in_sample has returned, and predict has not yet touched what it returned
Filled == ppc = "filled"

\* the window loop has ended, with the last row stored or with an error
WindowsEnded == ppc \in {"windows", "ValueError"}

\* C1: every window that predict builds (here: for a light curve with strictly
\* increasing times) has exactly `cadences` values, whatever the window width
\* and the length of the series.
C1_WindowLength ==
    StrictlyIncreasing(inT) => \A k \in 1..Len(built) : Len(built[k]) = cadences

\* C2 as stated: for a light curve (a time-ordered series) without abnormal
\* gaps fill_in_sample returns time, flux and flux_err as they were handed in.
C2_NoGapIdentity ==
    (Filled /\ NonDecreasing(inT) /\ DiffInd(inT) = <<>>)
        => (time = inT /\ flux = inF /\ err = InputErr)

\* C2 as amended: for a light curve with strictly increasing times and without
\* abnormal gaps fill_in_sample returns time, flux and flux_err as handed in.
C2_NoGapIdentityIncreasing ==
    (Filled /\ StrictlyIncreasing(inT) /\ DiffInd(inT) = <<>>)
        => (time = inT /\ flux = inF /\ err = InputErr)

\* a strictly increasing input with an irregular step that is not flagged
C2_Witness ==
    /\ Filled /\ StrictlyIncreasing(inT) /\ DiffInd(inT) = <<>>
    /\ Len(inT) >= 4
    /\ \E k \in 1..(Len(inT) - 1) : inT[k + 1] - inT[k] = 6
    /\ inF[1][1] > inF[2][1]

\* the input is ten evenly spaced points and the window width is 4
TenEvenlySpaced ==
    /\ Len(inT) = 10
    /\ \A k \in 1..9 : inT[k + 1] - inT[k] = 2
    /\ cadences = 4

\* C3: on ten evenly spaced points with cadences = 4, the window of every
\* index i <= 2 is 2 - i zeros followed by flux[0 : i + 2] of the input,
\* median-normalised (that is, up to one common positive factor); for
\* index 0 it is [0, 0, flux[0], flux[1]].
C3_LeadingWindows ==
    (TenEvenlySpaced /\ WindowsEnded) =>
        /\ Len(built) >= 3
        /\ \A i \in 0..2 :
             LET w == built[i + 1]
                 z == 2 - i
             IN  /\ Len(w) = 4
                 /\ \A j \in 1..z : w[j] = RInt(0)
                 /\ \A j \in 1..(i + 2) :
                        RMul(w[z + j], inF[1]) = RMul(w[z + 1], inF[j])

\* C4: for a time-sorted light curve with exactly one abnormal gap, no
\* difference of successive returned times exceeds median + sigma*std of the
\* differences of the input.
C4_NoGapLeft ==
    (Filled /\ NonDecreasing(inT) /\ Len(DiffInd(inT)) = 1) =>
        \A d \in {Diff(inT)}, med \in {NanMedian(Diff(inT))}, svar \in {ScaledVar(Diff(inT))} :
            \A k \in 1..(Len(time) - 1) :
                ~AboveThreshold(time[k + 1] - time[k], med, svar, Len(d))

\* one gap of three cadences inside a series of regular steps was filled
C4_Witness ==
    /\ Filled /\ StrictlyIncreasing(inT) /\ Len(DiffInd(inT)) = 1
    /\ Len(inT) >= 7
    /\ inT[4] - inT[3] = 6
    /\ Len(time) = Len(inT) + 3

\* an abnormal gap is flagged at the first or the last index of diff
BoundaryGap ==
    \E k \in 1..Len(DiffInd(inT)) :
        DiffInd(inT)[k] = 0 \/ DiffInd(inT)[k] = Len(inT) - 2

FillFailed == ppc \in {"ArangeError", "InterpError"}

FillReturned == ppc \in {"filled", "windows", "ValueError"}

GapAmongRegularSteps ==
    /\ StrictlyIncreasing(inT)
    /\ DiffInd(inT) # <<>>
    /\ Len(DiffInd(inT)) < Len(inT) - 1

\* C11: for strictly increasing input times (here: with a gap among regular
\* steps) the times fill_in_sample returns are strictly increasing (no time
\* stamp twice).
C11_ReturnsStrictlyIncreasing ==
    (Filled /\ GapAmongRegularSteps) => StrictlyIncreasing(time)

\* the samples returned whose time lies in [lo, hi)
SamplesIn(lo, hi) == {k \in 1..Len(time) : lo <= time[k] /\ time[k] < hi}

\* C12: for strictly increasing input times, every pass of the loop over the
\* flagged indices reads the original samples i and i+1 (whatever was inserted
\* before), and in the series returned the gap of every flagged index i holds
\* its original sample and ceil((time[i+1] - time[i]) / median(diff)) synthetic ones.
C12_FillsBetweenOriginalSamples ==
    StrictlyIncreasing(inT) =>
        /\ (ppc = "fill" /\ gaps # <<>>) =>
               LET i == Head(gaps)
               IN  /\ time[i + 1] = inT[i + 1] /\ time[i + 2] = inT[i + 2]
                   /\ flux[i + 1] = inF[i + 1] /\ flux[i + 2] = inF[i + 2]
        /\ Filled =>
               \A g \in 1..Len(DiffInd(inT)) :
                   LET i == DiffInd(inT)[g]
                   IN  Cardinality(SamplesIn(inT[i + 1], inT[i + 2]))
                         = 1 + CeilDiv(inT[i + 2] - inT[i + 1], NanMedian(Diff(inT)))

\* C13: for strictly increasing input times (here: with a gap among regular
\* steps), time, flux and flux_err returned have one length, and at every position the error is the one of the sample
\* there: the input's own error where the sample is an input sample, and
\* avg_noise where it is a synthetic one.
C13_ErrAligned ==
    (Filled /\ GapAmongRegularSteps) =>
        /\ Len(time) = Len(flux) /\ Len(flux) = Len(err)
        /\ \A k \in 1..Len(err) :
              err[k].kind = "orig" =>
                  time[k] = inT[err[k].idx] /\ flux[k] = inF[err[k].idx]

-----------------------------------------------------------------------------
(* Properties of train_models *)

Distinct(s) == \A j, k \in 1..Len(s) : s[j] = s[k] => j = k

\* C6: for every seed of a list of distinct seeds, in the order of the list,
\* the random state holds that seed when the classifier is constructed, and the classifier that is fit
\* starts from weights initialised under that seed that no fit has trained.
C6_FreshPerSeed ==
    Distinct(seeds) => \A k \in 1..Len(fits) :
        /\ fits[k].seed = seeds[k]
        /\ fits[k].rng = fits[k].seed
        /\ fits[k].start.built
        /\ fits[k].start.init = fits[k].seed
        /\ fits[k].start.trained = <<>>

\* what C7 says of the tables once train_models has completed
TableShapes ==
    /\ Len(table) = Len(seeds) * Len(HistoryKeys)
    /\ \A k \in 1..Len(seeds) : \A h \in 1..Len(HistoryKeys) :
           table[(k - 1) * Len(HistoryKeys) + h] = ColName(HistoryKeys[h], Fmt04d(seeds[k]))
    /\ Len(val_table) = 3 + Len(seeds)
    /\ SubSeq(val_table, 1, 3) = IdentityCols
    /\ \A k \in 1..Len(seeds) : val_table[3 + k] = ColName("pred", Fmt04d(seeds[k]))
    /\ SubSeq(test_table, 1, 3) = IdentityCols
    /\ Len(test_table) = 3 + (IF pred_test THEN Len(seeds) ELSE 0)
    /\ pred_test => \A k \in 1..Len(seeds) :
           test_table[3 + k] = ColName("test", Fmt04d(seeds[k]))

-----------------------------------------------------------------------------
(* Properties of create_df and ensemble_metrics *)

\* create_df was called and has returned a table
CreateDfReturned == epc \in {"df", "metrics_ValueError", "metrics_NameError"}

\* create_df was called and has raised
CreateDfFailed == epc \in {"UnboundLocalError", "ValueError", "KeyError"}

\* the per-seed prediction files there are for the data set of the call
Available ==
    {f \in dir : /\ ~f.kfold
                 /\ \/ Lower(call.data_set) = "validation" /\ f.kind = "predval"
                    \/ Lower(call.data_set) = "test" /\ f.kind = "predtest"}

\* C5 as stated: with fewer than 2 per-seed prediction sets for the requested
\* data set create_df fails and returns no table, whatever mode and data_set.
C5_FewerThanTwoFails ==
    (epc # "idle" /\ Cardinality(Available) < 2) => (CreateDfFailed /\ df = NoDf)

\* C5 as amended: with fewer than 2 per-seed prediction sets for the requested
\* data set create_df fails and returns no table if mode is the 'metrics'
\* literal (the default) or if there is no prediction set at all.
C5_FewerThanTwoFailsInMetricsMode ==
    (epc # "idle" /\ Cardinality(Available) < 2
                  /\ (call.mode = [value |-> "metrics", copy |-> FALSE] \/ Available = {}))
        => (CreateDfFailed /\ df = NoDf)

\* create_df has raised in the default mode with one prediction set at hand
C5_Witness ==
    /\ epc = "ValueError"
    /\ Cardinality(Available) = 1
    /\ call.mode = [value |-> "metrics", copy |-> FALSE]
    /\ Cardinality(dir) >= 2

\* ensemble_metrics was called on the table of create_df and has ended
EnsembleMetricsEnded == epc \in {"scored", "metrics_ValueError", "metrics_NameError"}

\* C9: ensemble_metrics completes, and the average precision it keeps is that
\* of the mean-prediction column pred against the ground truth.
C9_AveragePrecisionOfMean ==
    EnsembleMetricsEnded =>
        /\ epc = "scored"
        /\ metrics.average_precision = <<"set", Round4(AveragePrecision(df.gt, df.pred))>>

\* the value with 3 decimals nearest to a prediction x (in units of 0.0001)
Nearest3(x) == CHOOSE y \in (x - 5)..(x + 5) : y % 10 = 0

\* the sum of the second components of a set of pairs
RECURSIVE SumSecond(_)
SumSecond(S) ==
    IF S = {} THEN 0 ELSE LET x == CHOOSE y \in S : TRUE IN x[2] + SumSecond(S \ {x})

\* C10: in the table create_df returns, pred of each row is the mean of the
\* row's per-seed predictions rounded to 3 decimals, the NaN ones left out of
\* the sum and of the count (and NaN if all are NaN).
C10_MeanIgnoresNaN ==
    CreateDfReturned =>
        \A r \in 1..Len(df.pred) :
            LET S == {f \in Available : ~IsNaN(f.pred[r])}
                T == {<<f.seed, Nearest3(f.pred[r][2])>> : f \in S}
            IN  IF S = {} THEN IsNaN(df.pred[r])
                ELSE /\ ~IsNaN(df.pred[r])
                     /\ df.pred[r][2] * Cardinality(S) = df.pred[r][3] * SumSecond(T)

\* a row with the per-seed predictions 0.2, 0.4004 and NaN has the mean 0.3
C10_Witness ==
    /\ CreateDfReturned
    /\ Cardinality(Available) = 3
    /\ \E a, b, c \in Available :
          /\ a.pred[1] = Num(2000, 1) /\ b.pred[1] = Num(4004, 1) /\ c.pred[1] = NaN
    /\ df.pred[1] = Num(3000, 1)

\* C14: after train_models has run with two or more distinct seeds and
\* save=True into an empty output_dir, create_df(threshold) for the validation
\* set (default mode) returns a table with one prediction column per seed.
C14_CreateDfFindsTrainedSeeds ==
    (/\ tpc = "done" /\ save /\ Distinct(seeds) /\ Len(seeds) >= 2
     /\ epc # "idle"
     /\ Lower(call.data_set) = "validation"
     /\ call.mode = [value |-> "metrics", copy |-> FALSE])
        => (/\ epc = "df"
            /\ Len(df.seedcols) = Len(seeds))

=============================================================================
